---------------------------- MODULE Spec2Model ----------------------------
(***************************************************************************)
(* A model of adsharma/flatbuffers' key-value extensions:                  *)
(*                                                                         *)
(*   include/flatbuffers/serialize.h        keyencoder::Serialize /        *)
(*                                          Deserialize (byte comparable   *)
(*                                          encoding of int64_t / double)  *)
(*   include/flatbuffers/kvstore_builder.h  flatbuffers::KVStoreBuilder    *)
(*                                                                         *)
(* 64-bit quantities are sequences of 8 bytes: TLC's integers are 32 bits  *)
(* wide.  A Word is the register value, most significant byte first; the   *)
(* bytes an object occupies in memory depend on the host's byte order.     *)
(***************************************************************************)
EXTENDS Integers, Sequences, FiniteSets, TLC

VARIABLES
  \* ---- keyencoder (serialize.h) ----
  host_le,      \* TRUE on a little-endian host (<endian.h> decides htobe64)
  enc_type,     \* "int64" or "double": which specialization is exercised
  enc_in,       \* enc_in[i]: the Word the caller stored in *val
  enc_mem,      \* enc_mem[i]: the 8 bytes of *val in memory, lowest address first
  enc_stage,    \* enc_stage[i]: "input", "serialized" or "deserialized"
  \* ---- KVStoreBuilder (kvstore_builder.h) ----
  ndebug,       \* TRUE once the run has passed an assert() whose condition
                \* was false: the program is built with NDEBUG.  Until
                \* then the two builds behave alike and are not told apart.
  kvb,          \* the KVStoreBuilder the caller works on
  ref,          \* a KVStoreBuilder constructed afresh for the current record
                \* and given the same calls: what a fresh instance produces
  api           \* the caller's side: the calls made so far
                \*   last   the call made last: "ctor", "Clear", "StartTable",
                \*          "EndTable", "Finish", "ReleaseBufferPointer" or
                \*          the field write's name
                \*   off    the offset passed to the last AddOffset/AddKeyOffset
                \*   open   a StartTable has had no EndTable or Clear since
                \*   first  the current record is the first since Clear/ctor
                \*   recs, writes   StartTable calls and field writes so far
                \*   maxrecs, maxwrites   how many of them the run may make
                \*   nextK, nextV   the next key / value slot the schema allows
                \*   wf     every StartTable so far came while no record was
                \*          open (reset by Clear)
                \*   cleared  Clear has been called
                \*   kinds  what each unified slot of the current record holds
                \*   pos    where the slot's bytes were pushed: the size of its
                \*          builder's buffer right after the write (0: nothing)
                \*   val    the scalar written to the slot
                \*   strs   the key strings written in the current record:
                \*          slot, bytes, off (the key buffer's size after the
                \*          payload was pushed) and r (the relocation record)
                \*   ret, refret   what EndTable returned on kvb and on ref

enc_vars == <<host_le, enc_type, enc_in, enc_mem, enc_stage>>

kv_vars == <<ndebug, kvb, ref, api>>

vars == <<enc_vars, kv_vars>>

-----------------------------------------------------------------------------
(* Bytes and 64-bit words                                                  *)

Byte == 0..255

Pow2(n) == 2^n

\* bitwise exclusive or of two bytes, bit by bit
ByteXorBits(a, b) ==
  LET bit(x, i) == (x \div Pow2(i)) % 2
      RECURSIVE sum(_)
      sum(i) == IF i > 7 THEN 0
                ELSE ((bit(a, i) + bit(b, i)) % 2) * Pow2(i) + sum(i + 1)
  IN sum(0)

ByteXorTable == [a \in Byte |-> [b \in Byte |-> ByteXorBits(a, b)]]

ByteXor(a, b) == ByteXorTable[a][b]

Reverse(s) == [i \in 1..Len(s) |-> s[Len(s) + 1 - i]]

\* a ^ b on 64-bit words
Xor64(a, b) == [i \in 1..8 |-> ByteXor(a[i], b[i])]

\* (1UL << 63)
SignMask == <<128, 0, 0, 0, 0, 0, 0, 0>>

\* (int64_t) -1
AllOnes == <<255, 255, 255, 255, 255, 255, 255, 255>>

\* the value an 8-byte object in memory holds / the bytes a value is stored as
Load64(mem, le) == IF le THEN Reverse(mem) ELSE mem
Store64(w, le) == IF le THEN Reverse(w) ELSE w

\* htobe64 / be64toh of <endian.h>: a byte swap on a little-endian host
htobe64(w, le) == IF le THEN Reverse(w) ELSE w
be64toh(w, le) == IF le THEN Reverse(w) ELSE w

\* unsigned comparison of byte strings of equal length (memcmp(a, b) < 0)
RECURSIVE LexLess(_, _)
LexLess(a, b) ==
  IF a = <<>> \/ b = <<>> THEN FALSE
  ELSE IF a[1] # b[1] THEN a[1] < b[1]
  ELSE LexLess(Tail(a), Tail(b))

\* a < b for int64_t register values
Int64Less(a, b) ==
  LET na == a[1] >= 128
      nb == b[1] >= 128
  IN IF na # nb THEN na ELSE LexLess(a, b)

(* IEEE-754 binary64, read off the bit pattern *)
DoubleSign(w) == w[1] >= 128
DoubleMagnitude(w) == [w EXCEPT ![1] = w[1] % 128]
DoubleIsNaN(w) == LexLess(<<127, 240, 0, 0, 0, 0, 0, 0>>, DoubleMagnitude(w))
DoubleIsZero(w) == DoubleMagnitude(w) = <<0, 0, 0, 0, 0, 0, 0, 0>>

\* a < b for doubles: false when either is NaN, and -0.0 < +0.0 is false
DoubleLess(a, b) ==
  /\ ~DoubleIsNaN(a)
  /\ ~DoubleIsNaN(b)
  /\ ~(DoubleIsZero(a) /\ DoubleIsZero(b))
  /\ IF DoubleSign(a) # DoubleSign(b) THEN DoubleSign(a)
     ELSE IF DoubleSign(a) THEN LexLess(DoubleMagnitude(b), DoubleMagnitude(a))
     ELSE LexLess(DoubleMagnitude(a), DoubleMagnitude(b))

\* a == b for doubles
DoubleEq(a, b) ==
  /\ ~DoubleIsNaN(a)
  /\ ~DoubleIsNaN(b)
  /\ (a = b \/ (DoubleIsZero(a) /\ DoubleIsZero(b)))

\* x >= 0 and x < 0 for a double x
DoubleGeZero(w) == ~DoubleIsNaN(w) /\ (~DoubleSign(w) \/ DoubleIsZero(w))
DoubleLtZero(w) == ~DoubleIsNaN(w) /\ DoubleSign(w) /\ ~DoubleIsZero(w)

-----------------------------------------------------------------------------
(* keyencoder::Serialize / Deserialize, on the bytes of *val               *)

\* the caller holds two values, so that their encodings can be compared
EncIndex == {1, 2}

\* a plausible slip: the sign bit is not flipped
Serialize_int64_NoFlip(mem, le) ==
  Store64(htobe64(Load64(mem, le), le), le)

Serialize_int64(mem, le) ==
  LET val == Load64(mem, le)
      flipped == Xor64(val, SignMask)
  IN Store64(htobe64(flipped, le), le)

Serialize_double(mem, le) ==
  LET val == Load64(mem, le)
      mask == IF DoubleGeZero(val) THEN SignMask ELSE AllOnes
      buf == Xor64(val, mask)
  IN Store64(htobe64(buf, le), le)

\* a plausible slip: the conversion from big-endian is left out
Deserialize_int64_NoSwap(mem, le) ==
  Store64(Xor64(Load64(mem, le), SignMask), le)

Deserialize_int64(mem, le) ==
  LET tmp == be64toh(Load64(mem, le), le)
  IN Store64(Xor64(tmp, SignMask), le)

Deserialize_double(mem, le) ==
  LET tmp == be64toh(Load64(mem, le), le)
      mask == IF DoubleLtZero(tmp) THEN SignMask ELSE AllOnes
  IN Store64(Xor64(tmp, mask), le)


-----------------------------------------------------------------------------
(* Little-endian scalars in a buffer.  A buffer is the sequence of its     *)
(* used bytes, lowest address first: buf[1] is the byte at data(), and the *)
(* byte at end-relative position p (p = the buffer's size when it was      *)
(* pushed) is buf[Len(buf) - p + 1].  32-bit values are kept as their      *)
(* two's complement int32 reading, so that every value fits TLC's integers.*)

\* the n bytes (n <= 4) of the scalar x, EndianScalar'ed to little-endian
LE(x, n) == [i \in 1..n |-> (x \div Pow2(8 * (i - 1))) % 256]

\* ReadScalar<voffset_t>(&buf[i])
RdU16(buf, i) == buf[i] + 256 * buf[i + 1]

\* ReadScalar<int32_t>(&buf[i]); a uoffset_t above INT32_MAX reads negative
RdS32(buf, i) ==
  buf[i] + 256 * buf[i + 1] + 65536 * buf[i + 2]
    + 16777216 * (IF buf[i + 3] >= 128 THEN buf[i + 3] - 256 ELSE buf[i + 3])

\* WriteScalar(&buf[i], x) for an n-byte scalar
Wr(buf, i, x, n) ==
  IF i >= 1 /\ i + n - 1 <= Len(buf)
  THEN SubSeq(buf, 1, i - 1) \o LE(x, n) \o SubSeq(buf, i + n, Len(buf))
  ELSE [j \in 1..Len(buf) |->
          IF j >= i /\ j < i + n THEN LE(x, n)[j - i + 1] ELSE buf[j]]

Zeros(n) == [i \in 1..n |-> 0]

Max(a, b) == IF a >= b THEN a ELSE b

\* F(v), with v evaluated once: TLC evaluates a LET definition anew at every
\* use, and an operator's argument only once
Bind(v, F(_)) == F(v)

-----------------------------------------------------------------------------
(* vector_downward (flatbuffers.h): the buffer grows towards lower         *)
(* addresses inside one allocation.  buf holds the used bytes; below holds *)
(* the bytes of the allocation under data(), next to data() last: pop()    *)
(* only moves the cursor, so what was written there stays in memory until *)
(* a later push overwrites it.  A byte nothing has written yet, or that    *)
(* clear() has left behind, is indeterminate, written Indet.  reserved_ is *)
(* the allocation's size; buf_ names the allocation: the serial number of  *)
(* the allocate() call that made it, 0 for nullptr, and allocs is the      *)
(* number of such calls so far.                                            *)

Indet == 0 - 1

DropLast(s, n) == IF n >= Len(s) THEN <<>> ELSE SubSeq(s, 1, Len(s) - n)

growth_policy(bytes) == ((bytes \div 2) \div 8) * 8

\* make_space(len), up to the move of the cursor: when the bytes do not fit
\* under data(), the used bytes move to a new, larger allocation and the old
\* one is deallocated
vd_make_space(b, len) ==
  IF len > b.reserved_ - Len(b.buf)
  THEN [b EXCEPT !.reserved_ = ((@ + Max(len, growth_policy(@)) + 7) \div 8) * 8,
                 !.buf_ = b.allocs + 1,
                 !.allocs = @ + 1,
                 !.below = <<>>]
  ELSE b

vd_push(b, bytes) ==
  [vd_make_space(b, Len(bytes)) EXCEPT !.buf = bytes \o @,
                                       !.below = DropLast(@, Len(bytes))]

vd_fill(b, zero_pad_bytes) == vd_push(b, Zeros(zero_pad_bytes))

vd_pop(b, bytes_to_remove) ==
  [b EXCEPT !.buf = SubSeq(@, bytes_to_remove + 1, Len(@)),
            !.below = @ \o SubSeq(b.buf, 1, bytes_to_remove)]

vd_clear(b) ==
  [b EXCEPT !.buf = <<>>, !.below = <<>>,
            !.buf_ = IF @ = 0 THEN b.allocs + 1 ELSE @,
            !.allocs = IF b.buf_ = 0 THEN @ + 1 ELSE @]

\* release(): the allocation goes to the unique_ptr it returns
vd_release(b) == [b EXCEPT !.buf = <<>>, !.below = <<>>, !.buf_ = 0]

\* data(), as an address: the allocation and the distance from its end
vd_data(b) == [buf_ |-> b.buf_, pos |-> Len(b.buf)]

\* the byte at data() + (idx - 1); idx <= 0 is memory under data()
MemAt(b, idx) ==
  IF idx >= 1
  THEN IF idx <= Len(b.buf) THEN b.buf[idx] ELSE Indet
  ELSE IF Len(b.below) + idx >= 1 THEN b.below[Len(b.below) + idx] ELSE Indet

MemKnown(b, idx, n) == \A i \in 0..(n - 1) : MemAt(b, idx + i) # Indet

\* *reinterpret_cast<voffset_t *>(data() + idx - 1); g stands for the value
\* an indeterminate location happens to hold
MemRdU16(b, idx, g) ==
  IF MemKnown(b, idx, 2) THEN MemAt(b, idx) + 256 * MemAt(b, idx + 1)
  ELSE g % 65536

\* a 32-bit read at data() + idx - 1, as int32
MemRdS32(b, idx, g) ==
  IF MemKnown(b, idx, 4)
  THEN MemAt(b, idx) + 256 * MemAt(b, idx + 1) + 65536 * MemAt(b, idx + 2)
         + 16777216 * (IF MemAt(b, idx + 3) >= 128 THEN MemAt(b, idx + 3) - 256
                       ELSE MemAt(b, idx + 3))
  ELSE g

\* a 32-bit write of x at data() + idx - 1, inside the allocation
MemWr32(b, idx, x) ==
  LET need == Max(0, 1 - idx - Len(b.below))
      base == need + Len(b.below)
      full == [i \in 1..need |-> Indet] \o b.below \o b.buf
      written == Wr(full, base + idx, x, 4)
  IN [b EXCEPT !.below = SubSeq(written, 1, base),
               !.buf = SubSeq(written, base + 1, Len(written))]

-----------------------------------------------------------------------------
(* flatbuffers::FlatBufferBuilder (flatbuffers.h).  The fork adds          *)
(* setAlign(), which KVStoreBuilder's constructor calls on the key builder.*)

FlatBufferBuilder(initial_size) ==
  [buf |-> <<>>, below |-> <<>>, reserved_ |-> initial_size, buf_ |-> 1,
   allocs |-> 1, offsetbuf |-> <<>>, vtables |-> <<>>,
   nested |-> FALSE, finished |-> FALSE, minalign |-> 1, align |-> TRUE]

FBB_setAlign(b, a) == [b EXCEPT !.align = a]

FBB_Clear(b) ==
  [vd_clear(b) EXCEPT !.offsetbuf = <<>>, !.nested = FALSE,
                      !.finished = FALSE, !.vtables = <<>>, !.minalign = 1]

FBB_GetSize(b) == Len(b.buf)

FBB_GetCurrentBufferPointer(b) == vd_data(b)

PaddingBytes(buf_size, scalar_size) == (0 - buf_size) % scalar_size

FBB_Align(b, elem_size) ==
  IF b.align
  THEN vd_fill([b EXCEPT !.minalign = Max(@, elem_size)],
               PaddingBytes(Len(b.buf), elem_size))
  ELSE b

FBB_PushBytes(b, bytes) == vd_push(b, bytes)

\* PushElement<T>(element) for a scalar of n bytes; GetSize() is what it returns
FBB_PushElement(b, element, n) == FBB_PushBytes(FBB_Align(b, n), LE(element, n))

FBB_TrackField(b, field, off) ==
  [b EXCEPT !.offsetbuf = Append(@, [off |-> off, id |-> field])]

FBB_AddElement(b, field, e, def, n) ==
  IF e = def THEN b
  ELSE LET b1 == FBB_PushElement(b, e, n)
       IN FBB_TrackField(b1, field, FBB_GetSize(b1))

\* ReferTo(off), on a builder its Align(sizeof(uoffset_t)) has acted on
FBB_ReferTo(b, off) == FBB_GetSize(b) - off + 4

\* assert(off && off <= GetSize()) fails (both are unsigned)
FBB_ReferToAsserts(b, off) == off <= 0 \/ off > FBB_GetSize(b)

\* AddOffset(field, off): a null offset is not stored
FBB_AddOffset(b, field, off) ==
  IF off = 0 THEN b
  ELSE Bind(FBB_Align(b, 4), LAMBDA b1 :
         FBB_AddElement(b1, field, FBB_ReferTo(b1, off), 0, 4))

\* the assert of ReferTo fails inside AddOffset(field, off)
FBB_AddOffsetAsserts(b, off) ==
  off # 0 /\ FBB_ReferToAsserts(FBB_Align(b, 4), off)

\* PreAlign(len, alignment)
FBB_PreAlign(b, len, alignment) ==
  IF b.align
  THEN vd_fill([b EXCEPT !.minalign = Max(@, alignment)],
               PaddingBytes(Len(b.buf) + len, alignment))
  ELSE b

\* NotNested() or the assert of ReferTo fails inside Finish(root)
FBB_FinishAsserts(b, root) ==
  b.nested \/ FBB_ReferToAsserts(FBB_Align(FBB_PreAlign(b, 4, b.minalign), 4),
                                 root)

\* Finish(root), without a file identifier
FBB_Finish(b, root) ==
  Bind(FBB_Align(FBB_PreAlign(b, 4, b.minalign), 4), LAMBDA b1 :
    [FBB_PushElement(b1, FBB_ReferTo(b1, root), 4) EXCEPT !.finished = TRUE])

\* Finished(): assert(finished) fails
FBB_FinishedAsserts(b) == ~b.finished

\* ReleaseBufferPointer(), past its Finished()
FBB_ReleaseBufferPointer(b) == vd_release(b)

\* NotNested(): assert(!nested) fails
FBB_StartTableAsserts(b) == b.nested

FBB_StartTable(b) == [b EXCEPT !.nested = TRUE]

FieldIndexToOffset(field_id) == (field_id + 2) * 2

\* the loop of EndTable that writes the tracked fields into the vtable
RECURSIVE FBB_WriteVtable(_, _, _)
FBB_WriteVtable(buf, offsetbuf, vtableoffsetloc) ==
  IF offsetbuf = <<>> THEN buf
  ELSE LET fl == Head(offsetbuf)
           pos == (vtableoffsetloc - fl.off) % 65536
       IN FBB_WriteVtable(Wr(buf, fl.id + 1, pos, 2), Tail(offsetbuf),
                          vtableoffsetloc)

\* the first vtable of vtables_ with the layout of the one at data(), or 0
RECURSIVE FBB_FindVtable(_, _)
FBB_FindVtable(buf, vtables) ==
  IF vtables = <<>> THEN 0
  ELSE LET vt1_size == RdU16(buf, 1)
           vt2 == Len(buf) - Head(vtables) + 1
           vt2_size == RdU16(buf, vt2)
       IN IF vt1_size = vt2_size
             /\ SubSeq(buf, vt2, vt2 + vt1_size - 1) = SubSeq(buf, 1, vt1_size)
          THEN Head(vtables)
          ELSE FBB_FindVtable(buf, Tail(vtables))

\* assert(nested), assert(table_object_size < 0x10000) or the "field set
\* twice" assert of EndTable fails
FBB_EndTableAsserts(b, start, numfields) ==
  Bind(FBB_GetSize(FBB_PushElement(b, 0, 4)), LAMBDA vtableoffsetloc :
    \/ ~b.nested
    \/ vtableoffsetloc - start >= 65536
    \/ \E i, j \in 1..Len(b.offsetbuf) :
         /\ i < j
         /\ b.offsetbuf[i].id = b.offsetbuf[j].id
         /\ (vtableoffsetloc - b.offsetbuf[i].off) % 65536 # 0)

\* the end of EndTable, from the vtable comparison on; b5 holds the new
\* vtable at data()
FBB_EndTableDedup(b5, vtableoffsetloc) ==
  Bind(FBB_FindVtable(b5.buf, b5.vtables), LAMBDA found :
    LET vt_use == IF found # 0 THEN found ELSE FBB_GetSize(b5)
        b6 == IF found # 0 THEN vd_pop(b5, FBB_GetSize(b5) - vtableoffsetloc)
              ELSE b5
    IN Bind(b6, LAMBDA b :
         [b EXCEPT !.vtables = IF vt_use = FBB_GetSize(b) THEN Append(@, vt_use)
                                ELSE @,
                   !.buf = Wr(@, Len(@) - vtableoffsetloc + 1,
                              vt_use - vtableoffsetloc, 4),
                   !.nested = FALSE]))

\* EndTable(start, numfields): [b |-> the builder after, ret |-> vtableoffsetloc]
FBB_EndTable(b, start, numfields) ==
  Bind(FBB_PushElement(b, 0, 4), LAMBDA b1 :
    LET vtableoffsetloc == FBB_GetSize(b1)
        table_object_size == vtableoffsetloc - start
    IN Bind(FBB_PushElement(
              FBB_PushElement(vd_fill(b1, numfields * 2),
                              table_object_size % 65536, 2),
              FieldIndexToOffset(numfields), 2), LAMBDA b4 :
         [b |-> FBB_EndTableDedup(
                  [b4 EXCEPT !.buf = FBB_WriteVtable(@, b4.offsetbuf,
                                                     vtableoffsetloc),
                             !.offsetbuf = <<>>],
                  vtableoffsetloc),
          ret |-> vtableoffsetloc]))

\* Table::GetOptionalFieldOffset(field), for the table at data() + table - 1
GetOptionalFieldOffset(b, table, field, g) ==
  LET vtable == table - MemRdS32(b, table, g)
      vtsize == MemRdU16(b, vtable, g)
  IN IF field < vtsize THEN MemRdU16(b, vtable + field, g) ELSE 0

-----------------------------------------------------------------------------
(* flatbuffers::KVStoreBuilder (kvstore_builder.h).  An object is a record *)
(* of its members; fault is "none" until an assert (in a build without     *)
(* NDEBUG) or a wild memcpy ends the process inside one of its methods.    *)
(* nd is TRUE in a build with NDEBUG, where assert() expands to nothing.   *)

num_value_fields == 3
num_key_fields == 3
num_fixed_fields == 2

\* the constructor; key_start_, value_start_, key_size_, value_size_ and the
\* two pointers are not initialized by it: u says what they hold
KVStoreBuilder(initial_size, u) ==
  [key_start_ |-> u[1], value_start_ |-> u[2],
   key_size_ |-> u[3], value_size_ |-> u[4],
   key_pointer_ |-> u[3], value_pointer_ |-> u[4],
   key_builder_ |-> FBB_setAlign(FlatBufferBuilder(initial_size), FALSE),
   value_builder_ |-> FlatBufferBuilder(initial_size),
   relocs_ |-> <<>>,
   fault |-> "none"]

Clear(kv) ==
  [kv EXCEPT !.key_builder_ = FBB_Clear(@),
             !.value_builder_ = FBB_Clear(@)]

GetSize(kv) == FBB_GetSize(kv.key_builder_)
GetKeySize(kv) == kv.key_size_
GetValueSize(kv) == kv.value_size_

\* a plausible slip: the value write goes to the key builder, as AddElement's
AddValueElement_ToKey(kv, field, e, def, n) ==
  [kv EXCEPT !.key_builder_ = FBB_AddElement(@, field, e, def, n)]

AddElement(kv, field, e, def, n) ==
  [kv EXCEPT !.key_builder_ = FBB_AddElement(@, field, e, def, n)]

AddKeyElement(kv, field, e, def, n) ==
  [kv EXCEPT !.key_builder_ = FBB_AddElement(@, field, e, def, n)]

AddValueElement(kv, field, e, def, n) ==
  [kv EXCEPT !.value_builder_ = FBB_AddElement(@, field, e, def, n)]

\* AddOffset(field, off): to value_builder_
AddOffset(kv, field, off, nd) ==
  IF FBB_AddOffsetAsserts(kv.value_builder_, off) /\ ~nd
  THEN [kv EXCEPT !.fault = "assert"]
  ELSE [kv EXCEPT !.value_builder_ = FBB_AddOffset(@, field, off)]

\* AddKeyOffset(field, off): off = 0 comes before the call
AddKeyOffset(kv, field, off, nd) ==
  LET off1 == 0
  IN IF FBB_AddOffsetAsserts(kv.value_builder_, off1) /\ ~nd
     THEN [kv EXCEPT !.fault = "assert"]
     ELSE [kv EXCEPT !.value_builder_ = FBB_AddOffset(@, field, off1)]

\* Finish(root, nullptr): key_builder_ only
Finish(kv, root, nd) ==
  IF FBB_FinishAsserts(kv.key_builder_, root) /\ ~nd
  THEN [kv EXCEPT !.fault = "assert"]
  ELSE [kv EXCEPT !.key_builder_ = FBB_Finish(@, root)]

\* ReleaseBufferPointer(): the unique_ptr of value_builder_ is a temporary,
\* so its allocation is deallocated; the one of key_builder_ is returned
ReleaseBufferPointer(kv, nd) ==
  IF FBB_FinishedAsserts(kv.key_builder_) /\ ~nd
  THEN [kv EXCEPT !.fault = "assert"]
  ELSE IF FBB_FinishedAsserts(kv.value_builder_) /\ ~nd
  THEN [kv EXCEPT !.fault = "assert"]
  ELSE [kv EXCEPT !.value_builder_ = FBB_ReleaseBufferPointer(@),
                  !.key_builder_ = FBB_ReleaseBufferPointer(@)]

\* a plausible slip: the length is stored even when it equals its default
AddKeyElement_string_ForceLen(kv, field, e) ==
  LET len == Len(e)
  IN Bind(FBB_PushBytes(kv.key_builder_, e \o <<0>>), LAMBDA kb :
       LET off == FBB_GetSize(kb)
       IN Bind(FBB_PushElement(kv.value_builder_, off, 4), LAMBDA vb :
            Bind(FBB_PushElement(vb, len, 4), LAMBDA vb1 :
              [kv EXCEPT !.key_builder_ = kb,
                         !.value_builder_ =
                             FBB_TrackField(vb1, field, FBB_GetSize(vb1)),
                         !.relocs_ = Append(@, FBB_GetSize(vb))])))

\* a plausible slip: the relocation record is taken after the length has
\* been pushed, so it names the length and not the offset word
AddKeyElement_string_RelocLate(kv, field, e) ==
  LET len == Len(e)
  IN Bind(FBB_PushBytes(kv.key_builder_, e \o <<0>>), LAMBDA kb :
       LET off == FBB_GetSize(kb)
       IN Bind(FBB_AddElement(FBB_PushElement(kv.value_builder_, off, 4),
                              field, len, 0, 4), LAMBDA vb :
            [kv EXCEPT !.key_builder_ = kb,
                       !.value_builder_ = vb,
                       !.relocs_ = Append(@, FBB_GetSize(vb))]))

\* AddKeyElement<std::string>(field, e, def); e is the string's bytes
AddKeyElement_string(kv, field, e) ==
  LET len == Len(e)
  IN Bind(FBB_PushBytes(kv.key_builder_, e \o <<0>>), LAMBDA kb :
       LET off == FBB_GetSize(kb)
       IN Bind(FBB_PushElement(kv.value_builder_, off, 4), LAMBDA vb :
            [kv EXCEPT !.key_builder_ = kb,
                       !.value_builder_ = FBB_AddElement(vb, field, len, 0, 4),
                       !.relocs_ = Append(@, FBB_GetSize(vb))]))

StartTable(kv, nd) ==
  IF FBB_StartTableAsserts(kv.key_builder_) /\ ~nd
  THEN [kv EXCEPT !.fault = "assert"]
  ELSE Bind([kv EXCEPT !.key_builder_ = FBB_StartTable(@),
                       !.key_start_ = FBB_GetSize(kv.key_builder_)], LAMBDA kv1 :
         IF FBB_StartTableAsserts(kv.value_builder_) /\ ~nd
         THEN [kv1 EXCEPT !.fault = "assert"]
         ELSE [kv1 EXCEPT !.value_builder_ = FBB_StartTable(@),
                          !.value_start_ = FBB_GetSize(kv.value_builder_)])

\* a plausible slip: the soffset_t the key table's EndTable is still to push
\* is left out of off_from_end
RECURSIVE RelocateVtable_NoSoffset(_, _, _, _, _)
RelocateVtable_NoSoffset(kb, vb, table, i, g) ==
  IF i >= num_value_fields THEN kb
  ELSE LET kfield == (num_key_fields + num_fixed_fields) * 2 + 2 * i
           vfield == num_fixed_fields * 2 + 2 * i
           off == GetOptionalFieldOffset(vb, table, vfield, g)
           off_from_end == FBB_GetSize(kb) - off
       IN RelocateVtable_NoSoffset(FBB_TrackField(kb, kfield, off_from_end),
                                   vb, table, i + 1, g)

\* a plausible slip: vfield is not advanced with kfield
RECURSIVE RelocateVtable_SameField(_, _, _, _, _)
RelocateVtable_SameField(kb, vb, table, i, g) ==
  IF i >= num_value_fields THEN kb
  ELSE LET kfield == (num_key_fields + num_fixed_fields) * 2 + 2 * i
           vfield == num_fixed_fields * 2
           off == GetOptionalFieldOffset(vb, table, vfield, g)
           off_from_end == FBB_GetSize(kb) + 4 - off
       IN RelocateVtable_SameField(FBB_TrackField(kb, kfield, off_from_end),
                                   vb, table, i + 1, g)

\* the first loop of EndTable: the value vtable's offsets become fields of
\* the key table, from the i-th value field on
RECURSIVE RelocateVtable(_, _, _, _, _)
RelocateVtable(kb, vb, table, i, g) ==
  IF i >= num_value_fields THEN kb
  ELSE LET kfield == (num_key_fields + num_fixed_fields) * 2 + 2 * i
           vfield == num_fixed_fields * 2 + 2 * i
           off == GetOptionalFieldOffset(vb, table, vfield, g)
           off_from_end == FBB_GetSize(kb) + 4 - off
       IN RelocateVtable(FBB_TrackField(kb, kfield, off_from_end), vb, table,
                         i + 1, g)

\* the second loop of EndTable, over relocs: [kb |-> the key builder after,
\* failed |-> an assert of ReferTo failed on the way]
RECURSIVE RelocateRefs(_, _, _, _, _)
RelocateRefs(kb, relocs, pushed_bytes, nd, g) ==
  IF relocs = <<>> THEN [kb |-> kb, failed |-> FALSE]
  ELSE LET r == Head(relocs)
           offp == 1 + pushed_bytes - r
           adj == (offp - 1) + 4
       IN Bind(MemRdS32(kb, offp, g), LAMBDA old :
          Bind(FBB_Align(kb, 4), LAMBDA kb1 :
            IF FBB_ReferToAsserts(kb1, old) /\ ~nd
            THEN [kb |-> kb1, failed |-> TRUE]
            ELSE RelocateRefs(
                   MemWr32(kb1, offp + (FBB_GetSize(kb1) - FBB_GetSize(kb)),
                           FBB_ReferTo(kb1, old) - adj),
                   Tail(relocs), pushed_bytes, nd, g)))

\* EndTable from key_builder_.PushBytes on; vb is the value builder after its
\* EndTable and kv2 the object with it
EndTableRelocate(kv2, vb, vtable_size, numfields, nd, g) ==
  LET tablep == 1 + vtable_size
      table == tablep - 4
      pushed_bytes == FBB_GetSize(vb) - vtable_size
  IN IF pushed_bytes < 0
     THEN [kv |-> [kv2 EXCEPT !.fault = "crash"], ret |-> 0]
     ELSE
       Bind(RelocateRefs(
              RelocateVtable(
                FBB_PushBytes(kv2.key_builder_,
                              SubSeq(vb.buf, tablep, FBB_GetSize(vb))),
                vb, table, 0, g),
              kv2.relocs_, pushed_bytes, nd, g), LAMBDA rr :
         IF rr.failed
            \/ (FBB_EndTableAsserts(rr.kb, kv2.key_start_, numfields) /\ ~nd)
         THEN [kv |-> [kv2 EXCEPT !.key_builder_ = rr.kb, !.fault = "assert"],
               ret |-> 0]
         ELSE Bind(FBB_EndTable(rr.kb, kv2.key_start_, numfields), LAMBDA ke :
                [kv |-> [kv2 EXCEPT !.key_builder_ = ke.b], ret |-> ke.ret]))

\* a plausible slip: value_size_ is taken after value_builder_.EndTable
EndTable_SizeLate(kv, numfields, nd, g) ==
  Bind([kv EXCEPT !.key_pointer_ = FBB_GetCurrentBufferPointer(kv.key_builder_),
                  !.key_size_ = FBB_GetSize(kv.key_builder_),
                  !.value_pointer_ =
                      FBB_GetCurrentBufferPointer(kv.value_builder_),
                  !.value_size_ =
                      FBB_GetSize(FBB_EndTable(kv.value_builder_,
                                               kv.value_start_,
                                               num_value_fields).b)],
       LAMBDA kv1 :
    IF FBB_EndTableAsserts(kv.value_builder_, kv.value_start_, num_value_fields)
       /\ ~nd
    THEN [kv |-> [kv1 EXCEPT !.fault = "assert"], ret |-> 0]
    ELSE Bind(FBB_EndTable(kv.value_builder_, kv.value_start_,
                           num_value_fields).b, LAMBDA vb :
           EndTableRelocate([kv1 EXCEPT !.value_builder_ = vb], vb,
                            (MemRdU16(vb, 1, g) + 4) % 65536,
                            numfields, nd, g)))

\* EndTable(start, numfields): [kv |-> the object after, ret |-> what it returns]
EndTable(kv, numfields, nd, g) ==
  Bind([kv EXCEPT !.key_pointer_ = FBB_GetCurrentBufferPointer(kv.key_builder_),
                  !.key_size_ = FBB_GetSize(kv.key_builder_),
                  !.value_pointer_ =
                      FBB_GetCurrentBufferPointer(kv.value_builder_),
                  !.value_size_ = FBB_GetSize(kv.value_builder_)], LAMBDA kv1 :
    IF FBB_EndTableAsserts(kv.value_builder_, kv.value_start_, num_value_fields)
       /\ ~nd
    THEN [kv |-> [kv1 EXCEPT !.fault = "assert"], ret |-> 0]
    ELSE Bind(FBB_EndTable(kv.value_builder_, kv.value_start_,
                           num_value_fields).b, LAMBDA vb :
           EndTableRelocate([kv1 EXCEPT !.value_builder_ = vb], vb,
                            (MemRdU16(vb, 1, g) + 4) % 65536,
                            numfields, nd, g)))

-----------------------------------------------------------------------------
(* The caller: StartTable, field writes in schema order, EndTable, Clear.  *)

MaxRecords == 2
MaxWrites == 2
\* a run of more records with fewer writes
LongRecords == 3
LongWrites == 1
\* the initial_size the caller constructs the KVStoreBuilder with
InitialSize == 32

\* the scalars <<value, size in bytes>> and the strings the caller writes;
\* 0 is every field's default
Scalars == {<<0, 4>>, <<7, 1>>, <<7, 4>>}
Strings == {<<>>, <<97>>}
\* what a read of indeterminate memory may yield
Indeterminate == {0, 8}

Slots == 0..(num_key_fields + num_value_fields - 1)
NoKinds == [s \in Slots |-> "none"]
NoPos == [s \in Slots |-> 0]

\* a KVStoreBuilder as its constructor leaves it; what it has not
\* initialized is indeterminate until StartTable and EndTable assign it
RefBuilder == KVStoreBuilder(InitialSize, <<Indet, Indet, Indet, Indet>>)

\* the builds the run may turn out to be of, as nd: both while no assert has
\* been passed and one is about to fail, else the one known so far
Builds(asserts) ==
  IF ndebug THEN {TRUE} ELSE IF asserts THEN BOOLEAN ELSE {FALSE}

ApiInit ==
  [last |-> "ctor", open |-> FALSE, first |-> TRUE, recs |-> 0, writes |-> 0,
   maxrecs |-> MaxRecords, maxwrites |-> MaxWrites,
   wf |-> TRUE, cleared |-> FALSE, off |-> 0,
   nextK |-> 0, nextV |-> 0, kinds |-> NoKinds, pos |-> NoPos, val |-> NoPos,
   strs |-> <<>>, ret |-> 0, refret |-> 0]

\* the codec's variables while the builder is exercised
EncIdle ==
  /\ host_le = TRUE
  /\ enc_type = "int64"
  /\ enc_in = [i \in EncIndex |-> <<0, 0, 0, 0, 0, 0, 0, 0>>]
  /\ enc_mem = enc_in
  /\ enc_stage = [i \in EncIndex |-> "input"]

Init ==
  /\ EncIdle
  /\ ndebug = FALSE
  /\ kvb = RefBuilder
  /\ ref = RefBuilder
  /\ api = ApiInit

Alive == kvb.fault = "none"

\* EndTable(kv, ...) reads only bytes the program has written: the value
\* buffer holds no earlier vtable the new one could be deduplicated against,
\* so the vtable and the table are read where they were just written, and
\* every relocation record names a word of the bytes EndTable appends
ReadsWrittenMemory(kv) ==
  /\ kv.value_builder_.vtables = <<>>
  /\ ~kv.key_builder_.align
  /\ \A k \in 1..Len(kv.relocs_) :
       kv.relocs_[k] >= 4 /\ kv.relocs_[k] <= FBB_GetSize(kv.value_builder_)

\* what the reads of indeterminate memory in EndTable(kv, ...) may yield; one
\* value, never consulted, when there is no such read
Oracle(kv) ==
  IF ReadsWrittenMemory(kv) THEN {CHOOSE g \in Indeterminate : TRUE}
  ELSE Indeterminate

CallClear ==
  /\ Alive
  /\ api.last \notin {"ctor", "Clear"}
  /\ kvb' = Clear(kvb)
  /\ ref' = RefBuilder
  /\ api' = [api EXCEPT !.last = "Clear", !.open = FALSE, !.first = TRUE,
                        !.wf = TRUE, !.cleared = TRUE, !.off = 0,
                        !.nextK = 0, !.nextV = 0, !.kinds = NoKinds,
                        !.pos = NoPos, !.val = NoPos,
                        !.strs = <<>>, !.ret = 0, !.refret = 0]
  /\ UNCHANGED <<ndebug, enc_vars>>

CallStartTable ==
  /\ Alive
  /\ api.recs < api.maxrecs
  /\ api.last \notin {"Finish", "ReleaseBufferPointer"}
  /\ \E nd \in Builds(StartTable(kvb, FALSE).fault = "assert") :
       /\ ndebug' = nd
       /\ kvb' = StartTable(kvb, nd)
       /\ ref' = StartTable(RefBuilder, nd)
  /\ api' = [api EXCEPT !.last = "StartTable", !.open = TRUE,
                        !.first = (api.last \in {"ctor", "Clear"}),
                        !.wf = (@ /\ ~api.open), !.off = 0,
                        !.recs = @ + 1, !.nextK = 0, !.nextV = 0,
                        !.kinds = NoKinds, !.pos = NoPos, !.val = NoPos,
                        !.strs = <<>>, !.ret = 0, !.refret = 0]
  /\ UNCHANGED enc_vars

CanWrite == Alive /\ api.open /\ api.writes < api.maxwrites

KindOf(e, n) == IF e = 0 THEN "none" ELSE IF n = 1 THEN "u8" ELSE "u32"

CallAddKeyElement(i, e, n) ==
  /\ CanWrite
  /\ i >= api.nextK
  /\ kvb' = AddKeyElement(kvb, FieldIndexToOffset(i), e, 0, n)
  /\ ref' = AddKeyElement(ref, FieldIndexToOffset(i), e, 0, n)
  /\ api' = [api EXCEPT !.last = "AddKeyElement", !.writes = @ + 1,
                        !.nextK = i + 1, !.kinds[i] = KindOf(e, n),
                        !.pos[i] = IF e = 0 THEN 0 ELSE GetSize(kvb'),
                        !.val[i] = e]
  /\ UNCHANGED <<ndebug, enc_vars>>

CallAddElement(i, e, n) ==
  /\ CanWrite
  /\ i >= api.nextK
  /\ kvb' = AddElement(kvb, FieldIndexToOffset(i), e, 0, n)
  /\ ref' = AddElement(ref, FieldIndexToOffset(i), e, 0, n)
  /\ api' = [api EXCEPT !.last = "AddElement", !.writes = @ + 1,
                        !.nextK = i + 1, !.kinds[i] = KindOf(e, n),
                        !.pos[i] = IF e = 0 THEN 0 ELSE GetSize(kvb'),
                        !.val[i] = e]
  /\ UNCHANGED <<ndebug, enc_vars>>

CallAddValueElement(i, e, n) ==
  /\ CanWrite
  /\ i >= api.nextV
  /\ kvb' = AddValueElement(kvb, FieldIndexToOffset(i), e, 0, n)
  /\ ref' = AddValueElement(ref, FieldIndexToOffset(i), e, 0, n)
  /\ api' = [api EXCEPT !.last = "AddValueElement", !.writes = @ + 1,
                        !.nextV = i + 1,
                        !.kinds[num_key_fields + i] = KindOf(e, n),
                        !.pos[num_key_fields + i] =
                            IF e = 0 THEN 0
                            ELSE FBB_GetSize(kvb'.value_builder_),
                        !.val[num_key_fields + i] = e]
  /\ UNCHANGED <<ndebug, enc_vars>>

CallAddKeyString(i, e) ==
  /\ CanWrite
  /\ i >= api.nextV
  /\ kvb' = AddKeyElement_string(kvb, FieldIndexToOffset(i), e)
  /\ ref' = AddKeyElement_string(ref, FieldIndexToOffset(i), e)
  /\ api' = [api EXCEPT !.last = "AddKeyElement_string", !.writes = @ + 1,
                        !.nextV = i + 1,
                        !.kinds[num_key_fields + i] =
                            IF e = <<>> THEN "none" ELSE "str",
                        !.pos[num_key_fields + i] =
                            IF e = <<>> THEN 0
                            ELSE FBB_GetSize(kvb'.value_builder_),
                        !.val[num_key_fields + i] = Len(e),
                        !.strs = Append(@, [slot |-> num_key_fields + i,
                                            bytes |-> e,
                                            off |-> GetSize(kvb'),
                                            r |-> kvb'.relocs_[Len(kvb'.relocs_)]])]
  /\ UNCHANGED <<ndebug, enc_vars>>

\* the offsets the caller passes: null, and one of a string created before
Offsets == {0, 4}

\* what an offset write has left in the value builder for slot i, as the
\* caller's record of it
OffsetRecorded(i, off) ==
  [api EXCEPT !.writes = @ + 1, !.nextV = i + 1, !.off = off,
              !.kinds[num_key_fields + i] =
                  IF Len(kvb'.value_builder_.offsetbuf)
                       > Len(kvb.value_builder_.offsetbuf)
                  THEN "off" ELSE "none",
              !.pos[num_key_fields + i] =
                  IF Len(kvb'.value_builder_.offsetbuf)
                       > Len(kvb.value_builder_.offsetbuf)
                  THEN FBB_GetSize(kvb'.value_builder_) ELSE 0,
              !.val[num_key_fields + i] =
                  IF Len(kvb'.value_builder_.offsetbuf)
                       > Len(kvb.value_builder_.offsetbuf)
                  THEN RdS32(kvb'.value_builder_.buf, 1) ELSE 0]

CallAddOffset(i, off) ==
  /\ CanWrite
  /\ i >= api.nextV
  /\ \E nd \in Builds(\/ AddOffset(kvb, FieldIndexToOffset(i), off,
                                    FALSE).fault = "assert"
                       \/ AddOffset(ref, FieldIndexToOffset(i), off,
                                    FALSE).fault = "assert") :
       /\ ndebug' = nd
       /\ kvb' = AddOffset(kvb, FieldIndexToOffset(i), off, nd)
       /\ ref' = AddOffset(ref, FieldIndexToOffset(i), off, nd)
  /\ api' = [OffsetRecorded(i, off) EXCEPT !.last = "AddOffset"]
  /\ UNCHANGED enc_vars

CallAddKeyOffset(i, off) ==
  /\ CanWrite
  /\ i >= api.nextV
  /\ \E nd \in Builds(\/ AddKeyOffset(kvb, FieldIndexToOffset(i), off,
                                       FALSE).fault = "assert"
                       \/ AddKeyOffset(ref, FieldIndexToOffset(i), off,
                                       FALSE).fault = "assert") :
       /\ ndebug' = nd
       /\ kvb' = AddKeyOffset(kvb, FieldIndexToOffset(i), off, nd)
       /\ ref' = AddKeyOffset(ref, FieldIndexToOffset(i), off, nd)
  /\ api' = [OffsetRecorded(i, off) EXCEPT !.last = "AddKeyOffset"]
  /\ UNCHANGED enc_vars

\* Finish(root) with the offset EndTable has just returned
CallFinish ==
  /\ Alive
  /\ api.last = "EndTable"
  /\ \E nd \in Builds(Finish(kvb, api.ret, FALSE).fault = "assert") :
       /\ ndebug' = nd
       /\ kvb' = Finish(kvb, api.ret, nd)
  /\ api' = [api EXCEPT !.last = "Finish"]
  /\ UNCHANGED <<ref, enc_vars>>

CallReleaseBufferPointer ==
  /\ Alive
  /\ api.last = "Finish"
  /\ \E nd \in Builds(ReleaseBufferPointer(kvb, FALSE).fault = "assert") :
       /\ ndebug' = nd
       /\ kvb' = ReleaseBufferPointer(kvb, nd)
  /\ api' = [api EXCEPT !.last = "ReleaseBufferPointer"]
  /\ UNCHANGED <<ref, enc_vars>>

CallEndTable ==
  /\ Alive
  /\ api.open
  /\ \E g \in Oracle(kvb) :
     \E r0 \in {EndTable(kvb, num_key_fields + num_value_fields, ndebug, g)},
        f0 \in {EndTable(ref, num_key_fields + num_value_fields, ndebug, g)} :
     \E nd \in Builds(r0.kv.fault = "assert" \/ f0.kv.fault = "assert") :
     \E r \in {IF nd = ndebug THEN r0
               ELSE EndTable(kvb, num_key_fields + num_value_fields, nd, g)},
        f \in {IF nd = ndebug THEN f0
               ELSE EndTable(ref, num_key_fields + num_value_fields, nd, g)} :
          /\ ndebug' = nd
          /\ kvb' = r.kv
          /\ ref' = f.kv
          /\ api' = [api EXCEPT !.last = "EndTable", !.open = FALSE,
                                !.ret = r.ret, !.refret = f.ret]
  /\ UNCHANGED enc_vars

Next ==
  \/ CallClear
  \/ CallStartTable
  \/ \E i \in 0..(num_key_fields - 1), x \in Scalars :
       CallAddKeyElement(i, x[1], x[2])
  \/ \E i \in 0..(num_key_fields - 1), x \in Scalars :
       CallAddElement(i, x[1], x[2])
  \/ \E i \in 0..(num_value_fields - 1), x \in Scalars :
       CallAddValueElement(i, x[1], x[2])
  \/ \E i \in 0..(num_value_fields - 1), e \in Strings :
       CallAddKeyString(i, e)
  \/ \E i \in 0..(num_value_fields - 1), off \in Offsets : CallAddOffset(i, off)
  \/ \E i \in 0..(num_value_fields - 1), off \in Offsets :
       CallAddKeyOffset(i, off)
  \/ CallEndTable
  \/ CallFinish
  \/ CallReleaseBufferPointer

Spec == Init /\ [][Next]_vars

\* the same caller, making more records of fewer writes
InitLong ==
  /\ EncIdle
  /\ ndebug = FALSE
  /\ kvb = RefBuilder
  /\ ref = RefBuilder
  /\ api = [ApiInit EXCEPT !.maxrecs = LongRecords, !.maxwrites = LongWrites]

SpecLong == InitLong /\ [][Next]_vars

-----------------------------------------------------------------------------
(* Reading a finished key buffer back.  A position is end-relative: the    *)
(* byte at position p of a buffer of size s is buf[s - p + 1].             *)

\* the byte at index idx of buf, Indet outside it
BufAt(buf, idx) == IF idx >= 1 /\ idx <= Len(buf) THEN buf[idx] ELSE Indet

\* the n-byte little-endian scalar at index idx (n <= 4, as int32), Indet
\* when it is not wholly inside buf
BufRd(buf, idx, n) ==
  IF idx < 1 \/ idx + n - 1 > Len(buf) THEN Indet
  ELSE IF n = 1 THEN buf[idx]
  ELSE IF n = 2 THEN RdU16(buf, idx)
  ELSE RdS32(buf, idx)

\* the n bytes at end-relative position p of buf
BytesAtPos(buf, p, n) == [j \in 1..n |-> BufAt(buf, Len(buf) - p + j)]

\* the vtable entry of field slot s (unified numbering) of the table at
\* end-relative position table; 0 when the vtable does not reach the slot
KeyVtableEntry(buf, table, s) ==
  LET t == Len(buf) - table + 1
      vt == t - BufRd(buf, t, 4)
      vtsize == BufRd(buf, vt, 2)
      field == FieldIndexToOffset(s)
  IN IF field < vtsize THEN BufRd(buf, vt + field, 2) ELSE 0

\* where slot s of the table resolves to: table start minus entry
FieldPos(buf, table, s) == table - KeyVtableEntry(buf, table, s)

\* what a reader gets for slot s, whose schema type is kind: the default
\* when the entry is 0, else the scalar, or for a string its length and the
\* bytes the offset word after the length leads to
DecodeField(buf, table, s, kind) ==
  LET entry == KeyVtableEntry(buf, table, s)
      at == Len(buf) - table + 1 + entry
  IN IF entry = 0 THEN <<"default">>
     ELSE IF kind = "u8" THEN <<"u8", BufRd(buf, at, 1)>>
     ELSE IF kind = "u32" THEN <<"u32", BufRd(buf, at, 4)>>
     ELSE IF kind = "off" THEN <<"off", BufRd(buf, at, 4)>>
     ELSE IF kind = "str"
     THEN LET len == BufRd(buf, at, 4)
              word == BufRd(buf, at + 4, 4)
              payload == at + 4 + word
          IN <<"str", len,
               [j \in 1..(IF len \in 0..8 THEN len ELSE 0) |->
                  BufAt(buf, payload + j - 1)]>>
     ELSE <<"unexpected", entry>>

\* the whole record, as its reader sees it
Decode(buf, table, kinds) ==
  [s \in Slots |-> DecodeField(buf, table, s, kinds[s])]

\* EndTable has just returned to the caller, on kvb and on its fresh twin
Returned == api.last = "EndTable" /\ kvb.fault = "none"
RefReturned == api.last = "EndTable" /\ ref.fault = "none"

ValueSlots == {num_key_fields + i : i \in 0..(num_value_fields - 1)}

-----------------------------------------------------------------------------
(* Claims about KVStoreBuilder, checked under Spec                         *)

C2_RelocatedWord ==
  Returned =>
    \A k \in 1..Len(api.strs) :
      LET st == api.strs[k]
          wordpos == kvb.key_size_ + st.r
      IN BufRd(kvb.key_builder_.buf, GetSize(kvb) - wordpos + 1, 4)
           = wordpos - st.off

\* C3: when EndTable returns, the pending relocation list is empty, so that
\* no relocation record is applied again by the EndTable of a later record.
C3_RelocsCleared == Returned => kvb.relocs_ = <<>>

\* C4: whatever came before it, Clear() followed by StartTable, field writes
\* and EndTable leaves a key buffer byte-identical to the one a freshly
\* constructed KVStoreBuilder produces for the same calls (compared where
\* both EndTable calls return).
C4_ClearThenRecord ==
  (Returned /\ RefReturned /\ api.first /\ api.cleared /\ api.wf)
    => kvb.key_builder_.buf = ref.key_builder_.buf

\* C5: when two records are built in sequence on one KVStoreBuilder, with
\* Clear() between them or not, what a reader decodes from the second
\* record's key table does not depend on the first record: it is what a
\* fresh KVStoreBuilder given the second record alone yields.
C5_SecondRecordIndependent ==
  (Returned /\ RefReturned /\ api.recs >= 2 /\ api.wf)
    => Decode(kvb.key_builder_.buf, api.ret, api.kinds)
         = Decode(ref.key_builder_.buf, api.refret, api.kinds)

\* the other half of C5: an EndTable that returns leaves the bytes the key
\* buffer held when the record was started as they were
FirstRecordUntouched ==
  [][(api'.last = "EndTable" /\ api.last # "EndTable" /\ api.wf
        /\ kvb'.fault = "none" /\ kvb.key_start_ <= GetSize(kvb))
       => BytesAtPos(kvb'.key_builder_.buf, kvb.key_start_, kvb.key_start_)
            = BytesAtPos(kvb.key_builder_.buf, kvb.key_start_,
                         kvb.key_start_)]_vars

\* C10: StartTable called while a record is open fails instead of opening a
\* second record, and leaves the open record's start markers as they were.
C10_StartTableWhileOpenFails ==
  [][(api.open /\ api'.recs = api.recs + 1)
       => /\ kvb'.fault # "none"
          /\ kvb'.key_start_ = kvb.key_start_
          /\ kvb'.value_start_ = kvb.value_start_]_vars

\* the address p points into the allocation builder b holds now
PointsIntoLive(p, b) ==
  b.buf_ # 0 /\ p.buf_ = b.buf_ /\ p.pos <= b.reserved_

\* EndTable has taken its snapshots at least once, and the process lives
Snapshotted == kvb.fault = "none" /\ kvb.key_size_ # Indet

\* C11: no raw buffer address is kept across a write that can reallocate or
\* release the buffer it points into: whenever the caller can call them
\* after an EndTable, GetKey() points into the key buffer's current
\* allocation and GetValue() into the value buffer's.
C11_PointersLive ==
  Snapshotted =>
    /\ PointsIntoLive(kvb.key_pointer_, kvb.key_builder_)
    /\ PointsIntoLive(kvb.value_pointer_, kvb.value_builder_)

\* the key string the write just made was given
LastString == api'.strs[Len(api'.strs)].bytes

\* what a key-string write makes of the value buffer when it pushes the
\* metadata words meta: the 4-byte alignment's padding lies between them and
\* what the buffer held
ValueBufAfter(meta) ==
  meta \o Zeros(PaddingBytes(FBB_GetSize(kvb.value_builder_), 4))
       \o kvb.value_builder_.buf

\* the payload and its terminator go to the key buffer only, and exactly one
\* relocation record is appended: the position of the offset word
KeyStringRouted(e) ==
  /\ kvb'.key_builder_.buf = e \o <<0>> \o kvb.key_builder_.buf
  /\ kvb'.key_builder_.offsetbuf = kvb.key_builder_.offsetbuf
  /\ Len(kvb'.relocs_) = Len(kvb.relocs_) + 1
  /\ SubSeq(kvb'.relocs_, 1, Len(kvb.relocs_)) = kvb.relocs_
  /\ LET r == kvb'.relocs_[Len(kvb'.relocs_)]
     IN BytesAtPos(kvb'.value_builder_.buf, r, 4) = LE(GetSize(kvb'), 4)

C13_ScalarWriteFrame ==
  [][/\ api'.last \in {"AddKeyElement", "AddElement"} =>
          kvb' = [kvb EXCEPT !.key_builder_ = kvb'.key_builder_]
     /\ api'.last = "AddValueElement" =>
          kvb' = [kvb EXCEPT !.value_builder_ = kvb'.value_builder_]]_vars

\* a value scalar has just been written after a key scalar: the key buffer
\* is what the key write left, and the relocation list is empty as before
C13_Witness ==
  /\ api.last = "AddValueElement"
  /\ api.open
  /\ kvb.key_builder_.buf = <<7, 0, 0, 0>>
  /\ kvb.value_builder_.buf = <<7>>
  /\ kvb.relocs_ = <<>>

KeySlots == 0..(num_key_fields - 1)

\* what a reader is to get for slot s of the current record
Written(s) ==
  IF api.kinds[s] = "none" THEN <<"default">> ELSE <<api.kinds[s], api.val[s]>>

\* EndTable is called on a well-formed record with no value-side field write
\* and no key-string write: the value buffer is as StartTable found it
EndsEmptyValueSide ==
  /\ api'.last = "EndTable"
  /\ api.open
  /\ api.wf
  /\ api.strs = <<>>
  /\ kvb.value_start_ = FBB_GetSize(kvb.value_builder_)

\* C14: for a record with no value-side field writes and no key-string
\* writes, EndTable does no relocation work: it appends no value-table bytes
\* to the key buffer (which grows by the key table's soffset_t and vtable
\* alone), overwrites no word of it, every renumbered value slot of the key
\* table reads as absent and every key field decodes to the value written.
C14_EmptyValueSide ==
  [][EndsEmptyValueSide =>
       /\ kvb'.fault = "none"
       /\ GetSize(kvb') = GetSize(kvb) + 4
                            + FieldIndexToOffset(num_key_fields + num_value_fields)
       /\ BytesAtPos(kvb'.key_builder_.buf, GetSize(kvb), GetSize(kvb))
            = kvb.key_builder_.buf
       /\ \A s \in ValueSlots :
            KeyVtableEntry(kvb'.key_builder_.buf, api'.ret, s) = 0
       /\ \A s \in KeySlots :
            DecodeField(kvb'.key_builder_.buf, api'.ret, s, api.kinds[s])
              = Written(s)]_vars

\* where the value table EndTable is about to finalize will lie: the
\* end-relative position of its soffset_t
ValueTableEnd == FBB_GetSize(FBB_PushElement(kvb.value_builder_, 0, 4))

\* the index in buf of the vtable of the table at end-relative position table
VtableIndexOf(buf, table) ==
  LET t == Len(buf) - table + 1
  IN t - BufRd(buf, t, 4)

\* C15: in every EndTable of any sequence of records (a later record built
\* without Clear whose value vtable the underlying builder deduplicates
\* included), what EndTable reads at the value buffer's data() as the vtable
\* is the vtable of the value table just finalized, and the number of bytes
\* it appends to the key buffer is the value buffer's size less that vtable
\* and the 4-byte soffset_t of the table.
C15_ReadsOwnVtable ==
  [][(api'.last = "EndTable" /\ api.open /\ api.wf) =>
       LET vb == kvb'.value_builder_.buf
           vt == VtableIndexOf(vb, ValueTableEnd)
       IN /\ vt = 1
          /\ kvb'.fault = "none" =>
               api'.ret - 4 - GetSize(kvb) = Len(vb) - BufRd(vb, vt, 2) - 4]_vars

\* C16: after EndTable returns, GetKeySize() and GetValueSize() are the key
\* buffer's and the value buffer's size as they were on entry to EndTable,
\* before the value table is finalized and before anything is appended to
\* the key buffer; hence GetKeySize() is strictly less than GetSize().
C16_SizesSnapshot ==
  [][(api'.last = "EndTable" /\ api.open /\ kvb'.fault = "none") =>
       /\ GetKeySize(kvb') = GetSize(kvb)
       /\ GetValueSize(kvb') = FBB_GetSize(kvb.value_builder_)
       /\ GetKeySize(kvb') < GetSize(kvb')]_vars

\* EndTable has returned for a record of a 4-byte key field and a 1-byte
\* value field: the sizes reported are 4 and 1, the key buffer holds more
C16_Witness ==
  /\ Returned
  /\ GetKeySize(kvb) = 4
  /\ GetValueSize(kvb) = 1
  /\ GetSize(kvb) > 4
  /\ FBB_GetSize(kvb.value_builder_) > 1

\* C17: in the sequence StartTable, field writes, EndTable, Finish(root),
\* ReleaseBufferPointer, both finished-state checks ReleaseBufferPointer
\* makes hold (Finish has been called on the key builder and on the value
\* builder), so it completes and hands the key buffer to the caller.
C17_ReleaseChecksHold ==
  api.last = "ReleaseBufferPointer" =>
    /\ kvb.key_builder_.finished
    /\ kvb.value_builder_.finished
    /\ kvb.fault = "none"
    /\ kvb.key_builder_.buf_ = 0

\* C18: an offset-field add simply forwards: for AddOffset and for
\* AddKeyOffset, the underlying value builder's AddOffset is given the slot
\* and the offset the caller passed, unchanged, so the value builder after
\* the call is what its AddOffset makes of it with that offset (for an
\* offset its ReferTo accepts).
C18_OffsetForwarded ==
  [][(/\ api'.last \in {"AddOffset", "AddKeyOffset"}
      /\ kvb'.fault = "none"
      /\ ~FBB_AddOffsetAsserts(kvb.value_builder_, api'.off)) =>
       kvb'.value_builder_ =
         FBB_AddOffset(kvb.value_builder_, FieldIndexToOffset(api'.nextV - 1),
                       api'.off)]_vars

\* the entry of value field i in the vtable EndTable read at the value
\* buffer's data(), as Table::GetOptionalFieldOffset gives it
ValueVtableEntry(vb, i) ==
  LET vtable_size == (MemRdU16(vb, 1, 0) + 4) % 65536
      table == 1 + vtable_size - 4
  IN GetOptionalFieldOffset(vb, table, (num_fixed_fields + i) * 2, 0)

\* C19: for each renumbered value slot, the table-relative offset EndTable
\* causes to be stored in the key table's vtable equals the value vtable's
\* entry read for that slot; in particular a value field absent in the value
\* table (entry 0) is absent (entry 0) in the key table, never present.
C19_EntriesCarriedOver ==
  Returned =>
    \A i \in 0..(num_value_fields - 1) :
      KeyVtableEntry(kvb.key_builder_.buf, api.ret, num_key_fields + i)
        = ValueVtableEntry(kvb.value_builder_, i)

\* EndTable has returned for a record whose only value field is a byte in
\* the second value slot: that slot's entry is 7 in both vtables, and the
\* first and the third are 0 in both
C19_Witness ==
  /\ Returned
  /\ api.kinds[num_key_fields + 1] = "u8"
  /\ ValueVtableEntry(kvb.value_builder_, 0) = 0
  /\ ValueVtableEntry(kvb.value_builder_, 1) = 7
  /\ KeyVtableEntry(kvb.key_builder_.buf, api.ret, num_key_fields) = 0
  /\ KeyVtableEntry(kvb.key_builder_.buf, api.ret, num_key_fields + 1) = 7
  /\ KeyVtableEntry(kvb.key_builder_.buf, api.ret, num_key_fields + 2) = 0

\* the key strings of the record being ended that were empty
EmptyStrings == {k \in 1..Len(api.strs) : api.strs[k].bytes = <<>>}

-----------------------------------------------------------------------------
(* The codec's caller: Serialize, then Deserialize, on each value.          *)

\* the inputs the codec is exercised on: every combination of these bytes
TopBytes == {0, 63, 127, 128, 191, 255}
SecondBytes == {0, 16, 240, 255}
TailBytes == {<<0, 0, 0, 0, 0, 0>>, <<0, 0, 0, 0, 0, 1>>,
              <<255, 255, 255, 255, 255, 255>>}
EncInputs == {<<t, s>> \o r : t \in TopBytes, s \in SecondBytes, r \in TailBytes}

InitCodec ==
  /\ host_le \in BOOLEAN
  /\ enc_type \in {"int64", "double"}
  /\ enc_in \in [EncIndex -> EncInputs]
  /\ enc_mem = [i \in EncIndex |-> Store64(enc_in[i], host_le)]
  /\ enc_stage = [i \in EncIndex |-> "input"]
  /\ ndebug = FALSE
  /\ kvb = RefBuilder
  /\ ref = RefBuilder
  /\ api = ApiInit

CallSerialize(i) ==
  /\ enc_stage[i] = "input"
  /\ enc_mem' = [enc_mem EXCEPT ![i] =
                   IF enc_type = "int64" THEN Serialize_int64(enc_mem[i], host_le)
                   ELSE Serialize_double(enc_mem[i], host_le)]
  /\ enc_stage' = [enc_stage EXCEPT ![i] = "serialized"]
  /\ UNCHANGED <<host_le, enc_type, enc_in, kv_vars>>

CallDeserialize(i) ==
  /\ enc_stage[i] = "serialized"
  /\ enc_mem' = [enc_mem EXCEPT ![i] =
                   IF enc_type = "int64" THEN Deserialize_int64(enc_mem[i], host_le)
                   ELSE Deserialize_double(enc_mem[i], host_le)]
  /\ enc_stage' = [enc_stage EXCEPT ![i] = "deserialized"]
  /\ UNCHANGED <<host_le, enc_type, enc_in, kv_vars>>

NextCodec ==
  \/ \E i \in EncIndex : CallSerialize(i)
  \/ \E i \in EncIndex : CallDeserialize(i)

SpecCodec == InitCodec /\ [][NextCodec]_vars

-----------------------------------------------------------------------------
(* Claims about the codec, checked under SpecCodec                         *)

\* C6: for every non-NaN double x (+0.0, -0.0, subnormals and infinities
\* included), Deserialize applied to the result of Serialize(x) yields x.
C6_DoubleRoundTrip ==
  \A i \in EncIndex :
    (enc_type = "double" /\ enc_stage[i] = "deserialized"
       /\ ~DoubleIsNaN(enc_in[i]))
      => DoubleEq(Load64(enc_mem[i], host_le), enc_in[i])

\* C7: for every pair of non-NaN doubles a < b, the 8 bytes of Serialize(a)
\* compare strictly less than the 8 bytes of Serialize(b) as unsigned
\* big-endian byte strings.
C7_DoubleOrder ==
  (enc_type = "double" /\ enc_stage[1] = "serialized"
     /\ enc_stage[2] = "serialized" /\ DoubleLess(enc_in[1], enc_in[2]))
    => LexLess(enc_mem[1], enc_mem[2])

\* C8: for every 64-bit signed integer x (INT64_MIN, -1, 0 and INT64_MAX
\* included), Deserialize applied to the result of Serialize(x) yields x.
C8_Int64RoundTrip ==
  \A i \in EncIndex :
    (enc_type = "int64" /\ enc_stage[i] = "deserialized")
      => Load64(enc_mem[i], host_le) = enc_in[i]

\* INT64_MIN has been serialized and deserialized again on a little-endian host
C8_Witness ==
  /\ enc_type = "int64"
  /\ host_le
  /\ enc_stage[1] = "deserialized"
  /\ enc_in[1] = <<128, 0, 0, 0, 0, 0, 0, 0>>

\* C9: for every pair of 64-bit signed integers a < b, the 8 bytes of
\* Serialize(a) compare strictly less than those of Serialize(b) as unsigned
\* byte strings (so INT64_MIN < -1 < 0 < 1 < INT64_MAX keep their order).
C9_Int64Order ==
  (enc_type = "int64" /\ enc_stage[1] = "serialized"
     /\ enc_stage[2] = "serialized" /\ Int64Less(enc_in[1], enc_in[2]))
    => LexLess(enc_mem[1], enc_mem[2])

\* -1 and 0 have both been serialized, and their encodings are in order
C9_Witness ==
  /\ enc_type = "int64"
  /\ enc_stage[1] = "serialized"
  /\ enc_stage[2] = "serialized"
  /\ enc_in[1] = AllOnes
  /\ enc_in[2] = <<0, 0, 0, 0, 0, 0, 0, 0>>
  /\ LexLess(enc_mem[1], enc_mem[2])

=============================================================================
